---- MODULE Spec2Model ----
(***************************************************************************)
(* LogicAdapter (chatterbot/logic/logic_adapter.py): construction of the   *)
(* adapter configuration from keyword options, the base can_process /      *)
(* process / class_name operations, and the paged best-match search that   *)
(* concrete adapters run with that configuration.                          *)
(*                                                                         *)
(* Python values are records [kind, s, n, ws]; similarity scores and the   *)
(* threshold are held in hundredths (95 stands for 0.95).                  *)
(***************************************************************************)
EXTENDS Integers, Sequences, FiniteSets, TLC

VARIABLES kwargs, adapter, apc, raised, resolverCalls, lastCall,
          scoreOf, corpus, pagesFetched, pos, best, scored, spc

avars == <<kwargs, adapter, apc, raised, resolverCalls, lastCall>>
svars == <<scoreOf, corpus, pagesFetched, pos, best, scored, spc>>
vars == <<kwargs, adapter, apc, raised, resolverCalls, lastCall,
          scoreOf, corpus, pagesFetched, pos, best, scored, spc>>

----------------------------------------------------------------------------
(* Bounds *)
MaxCorpus == 3
MaxPageSize == 3

----------------------------------------------------------------------------
(* Python values *)
PyNone == [kind |-> "None", s |-> "", n |-> 0, ws |-> {}]
PyUnset == [kind |-> "unset", s |-> "", n |-> 0, ws |-> {}]
PyStr(x) == [kind |-> "str", s |-> x, n |-> 0, ws |-> {}]
PyCallable(x) == [kind |-> "callable", s |-> x, n |-> 0, ws |-> {}]
PyNum(x) == [kind |-> "num", s |-> "", n |-> x, ws |-> {}]
PyWords(W) == [kind |-> "words", s |-> "", n |-> 0, ws |-> W]

NoError == [type |-> "", ident |-> ""]

DefaultThreshold == 95
DefaultPageSize == 1000
levenshtein_distance == PyCallable("levenshtein_distance")
get_first_response == PyCallable("get_first_response")

(* chatterbot.utils.import_module: the identifiers it can locate *)
Registry ==
  [p \in {"chatterbot.comparisons.jaccard_similarity",
          "chatterbot.response_selection.get_random_response"} |->
     IF p = "chatterbot.comparisons.jaccard_similarity"
     THEN PyCallable("jaccard_similarity")
     ELSE PyCallable("get_random_response")]

import_module(path) ==
  IF path \in DOMAIN Registry
  THEN [raised |-> NoError, value |-> Registry[path]]
  ELSE [raised |-> [type |-> "ConfigurationError", ident |-> path],
        value |-> PyNone]

(* dict.get(key, default) *)
Get(kw, key, default) == IF key \in DOMAIN kw THEN kw[key] ELSE default

(* lines 43-46 / 48-51: a string option is replaced by import_module's
   result; the call is recorded in calls; an exception propagates *)
ResolveOptionSwallow(st, key) ==
  IF st.raised # NoError THEN st
  ELSE IF key \in DOMAIN st.kw /\ st.kw[key].kind = "str"
  THEN LET r == import_module(st.kw[key].s) IN
       IF r.raised # NoError
       THEN [st EXCEPT !.calls = Append(@, st.kw[key].s)]
       ELSE [st EXCEPT !.calls = Append(@, st.kw[key].s),
                       !.kw = [st.kw EXCEPT ![key] = r.value]]
  ELSE st

ResolveOption(st, key) ==
  IF st.raised # NoError THEN st
  ELSE IF key \in DOMAIN st.kw /\ st.kw[key].kind = "str"
  THEN LET r == import_module(st.kw[key].s) IN
       IF r.raised # NoError
       THEN [st EXCEPT !.calls = Append(@, st.kw[key].s), !.raised = r.raised]
       ELSE [st EXCEPT !.calls = Append(@, st.kw[key].s),
                       !.kw = [st.kw EXCEPT ![key] = r.value]]
  ELSE st

(* lines 53-55 *)
init_maximum_similarity_threshold_fixed(kw) == PyNum(DefaultThreshold)

init_maximum_similarity_threshold_half(kw) ==
  Get(kw, "maximum_similarity_threshold", PyNum(50))

init_maximum_similarity_threshold(kw) ==
  Get(kw, "maximum_similarity_threshold", PyNum(DefaultThreshold))

(* line 57 *)
init_excluded_words_dropped(kw) == PyNone

init_excluded_words(kw) == Get(kw, "excluded_words", PyNone)

(* lines 59-61 *)
init_search_page_size_zero(kw) == Get(kw, "search_page_size", PyNum(0))

init_search_page_size(kw) == Get(kw, "search_page_size", PyNum(DefaultPageSize))

(* lines 64-67 *)
init_compare_statements(kw) ==
  Get(kw, "statement_comparison_function", levenshtein_distance)

(* lines 70-73 *)
init_select_response_miskeyed(kw) ==
  Get(kw, "statement_comparison_function", get_first_response)

init_select_response(kw) ==
  Get(kw, "response_selection_method", get_first_response)

NoAdapter ==
  [maximum_similarity_threshold |-> PyUnset,
   excluded_words |-> PyUnset,
   search_page_size |-> PyUnset,
   compare_statements |-> PyUnset,
   select_response |-> PyUnset]

(* LogicAdapter.__init__ *)
LogicAdapter_init(kw0) ==
  LET s0 == [kw |-> kw0, raised |-> NoError, calls |-> <<>>]
      s1 == ResolveOption(s0, "statement_comparison_function")
      s2 == ResolveOption(s1, "response_selection_method")
  IN IF s2.raised # NoError
     THEN [raised |-> s2.raised, calls |-> s2.calls, self |-> NoAdapter]
     ELSE [raised |-> NoError, calls |-> s2.calls,
           self |-> [maximum_similarity_threshold |->
                       init_maximum_similarity_threshold(s2.kw),
                     excluded_words |-> init_excluded_words(s2.kw),
                     search_page_size |-> init_search_page_size(s2.kw),
                     compare_statements |-> init_compare_statements(s2.kw),
                     select_response |-> init_select_response(s2.kw)]]

(* LogicAdapter.can_process *)
can_process_nonempty(statement) ==
  [returned |-> IF Len(statement) > 1 THEN "True" ELSE "False", raised |-> ""]

can_process(statement) == [returned |-> "True", raised |-> ""]

(* LogicAdapter.process *)
process_passthrough(statement) == [returned |-> "Statement", raised |-> ""]

process(statement) ==
  [returned |-> "", raised |-> "AdapterMethodNotImplementedError"]

(* LogicAdapter.class_name *)
class_name == [returned |-> "LogicAdapter", raised |-> ""]

----------------------------------------------------------------------------
(* Paged best-match search run with the adapter's configuration *)

Texts == {<<"hi">>, <<"hello", "there">>, <<"Damn", "it">>}
Scores == {20, 50, 80, 95}

Lower(w) == IF w = "Damn" THEN "damn" ELSE w

MinOf(S) == CHOOSE x \in S : \A y \in S : x <= y
MaxOf(S) == CHOOSE x \in S : \A y \in S : x >= y

(* ExclusionFilter.rejects: case-insensitive whole-token match *)
rejects(excluded_words, text) ==
  /\ excluded_words.kind = "words"
  /\ \E i \in 1..Len(text) :
       Lower(text[i]) \in {Lower(w) : w \in excluded_words.ws}

(* ScoreFunction applied to the fixed input and statement s *)
compare(s) == scoreOf[s]

NoBest == [idx |-> 0, text |-> <<>>, score |-> -1]

Better(score, b) == b = NoBest \/ score > b.score

ShouldHalt(b, threshold) == b.score >= threshold

(* corpus source: pages of at most ps statements, in corpus order *)
HasMoreFullPages(c, fetched, ps) == (fetched + 1) * ps <= Len(c)

HasMorePages(c, fetched, ps) == fetched * ps < Len(c)

Page(c, k, ps) ==
  SubSeq(c, (k - 1) * ps + 1, IF k * ps < Len(c) THEN k * ps ELSE Len(c))

Threshold == adapter.maximum_similarity_threshold.n
PageSize == adapter.search_page_size.n
CurPage == Page(corpus, pagesFetched, PageSize)
CurIdx == (pagesFetched - 1) * PageSize + pos
CurStatement == CurPage[pos]

Advance ==
  IF pos < Len(CurPage)
  THEN pos' = pos + 1 /\ spc' = "scan"
  ELSE pos' = pos /\ spc' = "fetch"

FetchPage ==
  /\ spc = "fetch"
  /\ HasMorePages(corpus, pagesFetched, PageSize)
  /\ pagesFetched' = pagesFetched + 1
  /\ pos' = 1
  /\ spc' = "scan"
  /\ UNCHANGED <<scoreOf, corpus, best, scored>>
  /\ UNCHANGED avars

Exhausted ==
  /\ spc = "fetch"
  /\ ~HasMorePages(corpus, pagesFetched, PageSize)
  /\ spc' = "done"
  /\ UNCHANGED <<scoreOf, corpus, pagesFetched, pos, best, scored>>
  /\ UNCHANGED avars

SkipExcluded ==
  /\ spc = "scan"
  /\ rejects(adapter.excluded_words, CurStatement)
  /\ Advance
  /\ UNCHANGED <<scoreOf, corpus, pagesFetched, best, scored>>
  /\ UNCHANGED avars

ScoreStatement ==
  /\ spc = "scan"
  /\ ~rejects(adapter.excluded_words, CurStatement)
  /\ LET score == compare(CurStatement)
         nb == IF Better(score, best)
               THEN [idx |-> CurIdx, text |-> CurStatement, score |-> score]
               ELSE best
     IN /\ scored' = scored \cup {CurIdx}
        /\ best' = nb
        /\ IF ShouldHalt(nb, Threshold)
           THEN pos' = pos /\ spc' = "done"
           ELSE Advance
  /\ UNCHANGED <<scoreOf, corpus, pagesFetched>>
  /\ UNCHANGED avars

----------------------------------------------------------------------------
(* Keyword options passed to the constructor *)
Keys == {"statement_comparison_function", "response_selection_method",
         "maximum_similarity_threshold", "excluded_words", "search_page_size"}

Mk(a, b, c, d, e) ==
  LET full == [k \in Keys |->
                 CASE k = "statement_comparison_function" -> a
                   [] k = "response_selection_method" -> b
                   [] k = "maximum_similarity_threshold" -> c
                   [] k = "excluded_words" -> d
                   [] OTHER -> e]
      D == {k \in Keys : full[k] # PyUnset}
  IN [k \in D |-> full[k]]

CompareOptions ==
  {PyStr("chatterbot.comparisons.jaccard_similarity"),
   PyStr("no.such.comparison"), PyCallable("my_compare"), PyNone}
SelectOptions ==
  {PyStr("chatterbot.response_selection.get_random_response"),
   PyStr("no.such.selection"), PyCallable("my_select")}
ThresholdOptions == {PyNum(-5), PyNum(0), PyNum(50), PyNum(100), PyNum(120)}
ExcludedOptions == {PyNone, PyWords({"damn"})}
PageSizeOptions == {PyNum(-1), PyNum(0), PyNum(1), PyNum(50)}

AllKwargs ==
  {Mk(a, b, c, d, e) : a \in CompareOptions \cup {PyUnset},
                       b \in SelectOptions \cup {PyUnset},
                       c \in ThresholdOptions \cup {PyUnset},
                       d \in ExcludedOptions \cup {PyUnset},
                       e \in PageSizeOptions \cup {PyUnset}}

SearchKwargs ==
  {Mk(PyUnset, PyUnset, c, d, e) :
     c \in {PyNum(50), PyUnset},
     d \in {PyWords({"damn"}), PyUnset},
     e \in {PyNum(n) : n \in 1..MaxPageSize} \cup {PyUnset}}

Corpora == UNION {[1..n -> Texts] : n \in 0..MaxCorpus}

NoCall == [op |-> "", arg |-> <<>>, returned |-> "", raised |-> ""]

----------------------------------------------------------------------------
(* Adapter life cycle *)
Init ==
  /\ kwargs \in AllKwargs
  /\ adapter = NoAdapter
  /\ apc = "new"
  /\ raised = NoError
  /\ resolverCalls = <<>>
  /\ lastCall = NoCall
  /\ scoreOf = [t \in Texts |-> 20]
  /\ corpus = <<>>
  /\ pagesFetched = 0
  /\ pos = 0
  /\ best = NoBest
  /\ scored = {}
  /\ spc = "idle"

Construct ==
  /\ apc = "new"
  /\ LET r == LogicAdapter_init(kwargs)
     IN /\ adapter' = r.self
        /\ raised' = r.raised
        /\ resolverCalls' = r.calls
        /\ apc' = IF r.raised = NoError THEN "constructed" ELSE "failed"
  /\ UNCHANGED <<kwargs, lastCall>>
  /\ UNCHANGED svars

CanProcess ==
  /\ apc = "constructed"
  /\ \E st \in Texts :
       LET r == can_process(st)
       IN lastCall' = [op |-> "can_process", arg |-> st,
                       returned |-> r.returned, raised |-> r.raised]
  /\ UNCHANGED <<kwargs, adapter, apc, raised, resolverCalls>>
  /\ UNCHANGED svars

Process ==
  /\ apc = "constructed"
  /\ \E st \in Texts :
       LET r == process(st)
       IN lastCall' = [op |-> "process", arg |-> st,
                       returned |-> r.returned, raised |-> r.raised]
  /\ UNCHANGED <<kwargs, adapter, apc, raised, resolverCalls>>
  /\ UNCHANGED svars

ClassName ==
  /\ apc = "constructed"
  /\ lastCall' = [op |-> "class_name", arg |-> <<>>,
                  returned |-> class_name.returned,
                  raised |-> class_name.raised]
  /\ UNCHANGED <<kwargs, adapter, apc, raised, resolverCalls>>
  /\ UNCHANGED svars

Next == Construct \/ CanProcess \/ Process \/ ClassName

Spec == Init /\ [][Next]_vars

(* A search started on a constructed adapter *)
SearchInit ==
  /\ kwargs \in SearchKwargs
  /\ LET r == LogicAdapter_init(kwargs)
     IN /\ adapter = r.self
        /\ raised = r.raised
        /\ resolverCalls = r.calls
  /\ apc = "constructed"
  /\ lastCall = NoCall
  /\ scoreOf \in [Texts -> Scores]
  /\ corpus \in Corpora
  /\ pagesFetched = 0
  /\ pos = 0
  /\ best = NoBest
  /\ scored = {}
  /\ spc = "fetch"

SearchNext == FetchPage \/ Exhausted \/ SkipExcluded \/ ScoreStatement

SearchSpec == SearchInit /\ [][SearchNext]_vars

----------------------------------------------------------------------------
(* What the caller configured, read off the keyword options *)
ConfiguredThreshold ==
  IF "maximum_similarity_threshold" \in DOMAIN kwargs
  THEN kwargs["maximum_similarity_threshold"].n ELSE 95

ConfiguredPageSize ==
  IF "search_page_size" \in DOMAIN kwargs
  THEN kwargs["search_page_size"].n ELSE 1000

ConfiguredExcluded(text) ==
  /\ "excluded_words" \in DOMAIN kwargs
  /\ \E i \in 1..Len(text) :
       Lower(text[i]) \in {Lower(w) : w \in kwargs["excluded_words"].ws}

PageOf(i) == ((i - 1) \div ConfiguredPageSize) + 1
Indices == 1..Len(corpus)
Admissible == {i \in Indices : ~ConfiguredExcluded(corpus[i])}
Hits == {i \in Indices : scoreOf[corpus[i]] >= ConfiguredThreshold}
AdmissibleHits == Hits \cap Admissible
HaltsOnReach ==
  \A j \in scored : scoreOf[corpus[j]] >= ConfiguredThreshold => spc = "done"

(* C1, over all statements: if any statement scores >= t, nothing is scored in a page
   after the first page holding such a statement, and a scored statement
   with score >= t (equality included) ends the search *)
C1_AnyHitStopsLaterPages ==
  /\ Hits # {} => \A j \in scored : PageOf(j) <= PageOf(MinOf(Hits))
  /\ HaltsOnReach

(* C1, over non-excluded statements: if a non-excluded statement scores >= t, nothing is scored
   in a page after the first page holding such a statement, and a scored
   statement with score >= t (equality included) ends the search *)
C1_AdmissibleHitStopsLaterPages ==
  /\ AdmissibleHits # {} =>
       \A j \in scored : PageOf(j) <= PageOf(MinOf(AdmissibleHits))
  /\ HaltsOnReach

C1_Witness ==
  /\ spc = "done"
  /\ AdmissibleHits # {}
  /\ best.idx = MinOf(AdmissibleHits)
  /\ best.score = ConfiguredThreshold
  /\ PageOf(best.idx) > 1
  /\ PageOf(Len(corpus)) > PageOf(best.idx)

(* C2: the running best is never a statement containing a configured
   excluded word, and a step that visits such a statement neither scores
   it, nor changes best, nor ends the search *)
C2_ExcludedNeverBest ==
  /\ [](best # NoBest => ~ConfiguredExcluded(best.text))
  /\ [][(spc = "scan" /\ ConfiguredExcluded(CurStatement))
          => (spc' # "done" /\ best' = best /\ scored' = scored)]_vars

C2_Witness ==
  /\ spc = "done"
  /\ best # NoBest
  /\ pagesFetched * ConfiguredPageSize < Len(corpus)
  /\ \E i \in 1..(best.idx - 1) :
       ConfiguredExcluded(corpus[i]) /\ scoreOf[corpus[i]] >= ConfiguredThreshold

(* C3: after a successful construction every field is the supplied option,
   or its default when not supplied; a string comparison/selection option
   is stored as the resolver's callable, and the resolver is called for the
   string options only *)
Supplied(key, default) ==
  IF key \in DOMAIN kwargs
  THEN IF kwargs[key].kind = "str" THEN Registry[kwargs[key].s] ELSE kwargs[key]
  ELSE default

StringOptions ==
  LET f(key) == IF key \in DOMAIN kwargs /\ kwargs[key].kind = "str"
                THEN <<kwargs[key].s>> ELSE <<>>
  IN f("statement_comparison_function") \o f("response_selection_method")

C3_FieldsAreOptionsOrDefaults ==
  apc = "constructed" =>
    /\ adapter.maximum_similarity_threshold =
         Get(kwargs, "maximum_similarity_threshold", PyNum(95))
    /\ adapter.excluded_words = Get(kwargs, "excluded_words", PyNone)
    /\ adapter.search_page_size = Get(kwargs, "search_page_size", PyNum(1000))
    /\ adapter.compare_statements =
         Supplied("statement_comparison_function",
                  PyCallable("levenshtein_distance"))
    /\ adapter.select_response =
         Supplied("response_selection_method", PyCallable("get_first_response"))
    /\ resolverCalls = StringOptions

C3_Witness ==
  /\ apc = "constructed"
  /\ "statement_comparison_function" \in DOMAIN kwargs
  /\ kwargs["statement_comparison_function"].kind = "str"
  /\ "response_selection_method" \in DOMAIN kwargs
  /\ kwargs["response_selection_method"].kind = "callable"
  /\ "search_page_size" \notin DOMAIN kwargs
  /\ "maximum_similarity_threshold" \in DOMAIN kwargs

(* C4: when a string comparison/selection option cannot be resolved, the
   construction fails with a ConfigurationError naming an unresolved
   identifier and no configuration field is set *)
Unresolvable ==
  {kwargs[k].s : k \in {k \in {"statement_comparison_function",
                               "response_selection_method"} \cap DOMAIN kwargs :
                          kwargs[k].kind = "str" /\ kwargs[k].s \notin DOMAIN Registry}}

C4_UnresolvableFailsConstruction ==
  (apc # "new" /\ Unresolvable # {}) =>
    /\ apc = "failed"
    /\ raised.type = "ConfigurationError"
    /\ raised.ident \in Unresolvable
    /\ adapter = NoAdapter

C4_Witness ==
  /\ apc = "failed"
  /\ raised.ident = "no.such.selection"
  /\ "maximum_similarity_threshold" \in DOMAIN kwargs
  /\ "statement_comparison_function" \in DOMAIN kwargs

(* C5: every process call on the base adapter raises the not-implemented
   error, returns nothing and leaves the configuration unchanged *)
C5_ProcessNotImplemented ==
  [][lastCall'.op = "process" =>
       /\ lastCall'.raised = "AdapterMethodNotImplementedError"
       /\ lastCall'.returned = ""
       /\ adapter' = adapter]_vars

C5_Witness ==
  /\ lastCall.op = "process"
  /\ lastCall.arg = <<"hello", "there">>
  /\ adapter.maximum_similarity_threshold = PyNum(50)

(* C6: every can_process call returns true without raising, and can_process
   and class_name calls leave the five configuration fields unchanged *)
C6_CanProcessTrueNoEffect ==
  [][lastCall'.op \in {"can_process", "class_name"} =>
       /\ lastCall'.raised = ""
       /\ lastCall'.op = "can_process" => lastCall'.returned = "True"
       /\ adapter' = adapter]_vars

C6_Witness ==
  /\ lastCall.op = "can_process"
  /\ lastCall.arg = <<"hi">>
  /\ lastCall.returned = "True"
  /\ adapter.excluded_words = PyWords({"damn"})

(* C7, unconditional: every constructed adapter has 0 <= threshold <= 1 and
   page size > 0 *)
InRange ==
  /\ 0 <= adapter.maximum_similarity_threshold.n
  /\ adapter.maximum_similarity_threshold.n <= 100
  /\ adapter.search_page_size.n > 0

C7_ConfigInRange == apc = "constructed" => InRange

(* C7, conditional: a constructed adapter has 0 <= threshold <= 1 and page
   size > 0 whenever the threshold and page size the caller supplied, if
   any, are themselves in those ranges *)
SuppliedInRange ==
  /\ "maximum_similarity_threshold" \in DOMAIN kwargs =>
       /\ 0 <= kwargs["maximum_similarity_threshold"].n
       /\ kwargs["maximum_similarity_threshold"].n <= 100
  /\ "search_page_size" \in DOMAIN kwargs => kwargs["search_page_size"].n > 0

C7_ConfigInRangeWhenSuppliedInRange ==
  (apc = "constructed" /\ SuppliedInRange) => InRange

C7_Witness ==
  /\ apc = "constructed"
  /\ SuppliedInRange
  /\ "search_page_size" \notin DOMAIN kwargs
  /\ "maximum_similarity_threshold" \notin DOMAIN kwargs

(* C8: with no excluded statement and no score reaching the threshold, the
   finished search has scored every statement and returns the first
   statement, in corpus order, that has the maximum score of the corpus *)
MaxScore == MaxOf({scoreOf[corpus[i]] : i \in Indices})

C8_ExhaustiveMaxFirst ==
  (spc = "done" /\ corpus # <<>> /\ Admissible = Indices /\ Hits = {}) =>
    /\ scored = Indices
    /\ best.score = MaxScore
    /\ best.idx = MinOf({i \in Indices : scoreOf[corpus[i]] = MaxScore})
    /\ best.text = corpus[best.idx]

C8_Witness ==
  /\ spc = "done"
  /\ Len(corpus) = 3
  /\ Admissible = Indices
  /\ Hits = {}
  /\ best.idx = 2
  /\ scoreOf[corpus[3]] = best.score
  /\ corpus[3] # corpus[2]
  /\ pagesFetched > 1

(* C9: the result of a finished search is determined by the corpus, the
   scores, the exclusion set and the threshold alone: the first non-excluded
   statement reaching the threshold if there is one, otherwise the first
   non-excluded statement of maximum score, otherwise none; the page size
   does not enter *)
ResultOf(i) == [idx |-> i, text |-> corpus[i], score |-> scoreOf[corpus[i]]]

PageFreeResult ==
  IF AdmissibleHits # {} THEN ResultOf(MinOf(AdmissibleHits))
  ELSE IF Admissible # {}
  THEN LET m == MaxOf({scoreOf[corpus[i]] : i \in Admissible})
       IN ResultOf(MinOf({i \in Admissible : scoreOf[corpus[i]] = m}))
  ELSE NoBest

C9_PagingTransparent == spc = "done" => best = PageFreeResult

C9_Witness ==
  /\ spc = "done"
  /\ ConfiguredPageSize = 2
  /\ Len(corpus) = 3
  /\ best.idx = 3
  /\ pagesFetched = 2

(* C10: a finished search returns no candidate exactly when the corpus has
   no non-excluded statement, and a search that has not finished can always
   take its next step (it has no stuck or error state) *)
C10_NoneIffNoAdmissible ==
  /\ spc = "done" => (best = NoBest <=> Admissible = {})
  /\ spc # "done" => ENABLED SearchNext

C10_Witness ==
  /\ spc = "done"
  /\ best = NoBest
  /\ Len(corpus) = 2
  /\ pagesFetched = 2
====
